---- MODULE Spec2Model ----
(***************************************************************************)
(* File storage orchestration of api/files/routes.go: the handlers         *)
(* PostFiles, UpdateFile, DeleteFile and GetFileList acting on a Cloud     *)
(* Storage bucket and a Firestore collection.                              *)
(*                                                                         *)
(* Strings are sequences of byte codes (Go strings are byte sequences and  *)
(* Firestore orders strings by their UTF-8 bytes), so that concatenation,  *)
(* lower-casing, splitting and comparison are computed, not assumed.       *)
(***************************************************************************)
EXTENDS Integers, Sequences, FiniteSets, TLC

\* ------------------------------------------------------------ bounds
\* Number of identifiers uuid.New() can hand out in one run.
MaxUuid == 2
\* Largest number of files in one upload request.
MaxFiles == 2
\* The millisecond clock runs from ClockMin to MaxClock.
ClockMin == 10
MaxClock == 11
\* Number of identifiers uuid.New() can hand out in a run of two workers.
MaxConcUuid == 3
\* Longest tag string normalized on its own.
MaxTagLen == 3
\* Longest identifier whose paths are derived on their own.
MaxIdLen == 2

\* ------------------------------------------------------------ strings
Max(S) == CHOOSE x \in S : \A y \in S : y <= x

ToLowerCh(c) == IF c >= 65 /\ c <= 90 THEN c + 32 ELSE c

\* strings.ToLower
ToLower(s) == [i \in 1..Len(s) |-> ToLowerCh(s[i])]

\* unicode.IsSpace on the ASCII range: \t \n \v \f \r and space
IsSpace(c) == c \in {9, 10, 11, 12, 13, 32}

RECURSIVE FieldsFrom(_, _, _, _)
FieldsFrom(s, i, cur, acc) ==
    IF i > Len(s)
    THEN (IF cur = <<>> THEN acc ELSE Append(acc, cur))
    ELSE IF IsSpace(s[i])
         THEN FieldsFrom(s, i + 1, <<>>, IF cur = <<>> THEN acc ELSE Append(acc, cur))
         ELSE FieldsFrom(s, i + 1, Append(cur, s[i]), acc)

\* strings.Fields: the maximal runs of non-space bytes, in order
Fields(s) == FieldsFrom(s, 1, <<>>, <<>>)

RECURSIVE FormatInt(_)
\* strconv.FormatInt(n, 10) for n >= 0: the decimal digits of n
FormatInt(n) == IF n < 10 THEN <<48 + n>> ELSE FormatInt(n \div 10) \o <<48 + (n % 10)>>

RECURSIVE ParseInt(_)
\* The number a sequence of decimal digits denotes
ParseInt(d) == IF d = <<>> THEN 0 ELSE 10 * ParseInt(SubSeq(d, 1, Len(d) - 1)) + (d[Len(d)] - 48)

\* strconv.Atoi: an optional sign and decimal digits, or an error
Atoi(s) ==
    LET digits == IF s # <<>> /\ s[1] \in {43, 45} THEN Tail(s) ELSE s
    IN  IF digits = <<>> \/ \E i \in 1..Len(digits) : digits[i] \notin 48..57
        THEN [n |-> 0, err |-> TRUE]
        ELSE [n |-> IF s[1] = 45 THEN 0 - ParseInt(digits) ELSE ParseInt(digits),
              err |-> FALSE]

\* Go's (and Firestore's) string order: byte-wise lexicographic
StrLess(a, b) ==
    \E k \in 1..(Len(b)) :
        /\ \A j \in 1..(k - 1) : j <= Len(a) /\ a[j] = b[j]
        /\ (k > Len(a) \/ (k - 1 < Len(a) /\ a[k] < b[k]))

\* filepath.Base on a name without trailing separators: the last element
Base(s) ==
    LET seps == {i \in 1..Len(s) : s[i] = 47}
    IN  IF s = <<>> THEN <<46>>
        ELSE IF seps = {} THEN s
        ELSE SubSeq(s, Max(seps) + 1, Len(s))

\* filepath.Ext: the suffix from the last dot of the last element, or ""
Ext(s) ==
    LET b == IF s = <<>> THEN <<>> ELSE Base(s)
        dots == {i \in 1..Len(b) : b[i] = 46}
    IN  IF dots = {} \/ (s # <<>> /\ s[Len(s)] = 47) THEN <<>>
        ELSE SubSeq(b, Max(dots), Len(b))

\* ".jpg", ".jpeg", ".png", ".gif"
imageTypes ==
    { <<46, 106, 112, 103>>, <<46, 106, 112, 101, 103>>,
      <<46, 112, 110, 103>>, <<46, 103, 105, 102>> }

\* config.Config.BucketBasePath and ResourceBasePath: "f/" and "/r/"
BucketBasePath == <<102, 47>>
ResourceBasePath == <<47, 114, 47>>

\* "_small"
ThumbnailSuffix == <<95, 115, 109, 97, 108, 108>>

toThumbnailPath(path) == path \o ThumbnailSuffix

\* Mutant of toBucketPath: the identifier is left out
toBucketPath_base(id) == BucketBasePath

toBucketPath(id) == BucketBasePath \o id

toResourceURL(path) == ResourceBasePath \o path

\* Mutant of getOrderNo: the clock value is left out
getOrderNo_noClock(id, now) == <<48, 45>> \o id

\* getOrderNo with the value time.Now().UnixMilli() returned
getOrderNo(id, now) == FormatInt(now) \o <<45>> \o id

\* Mutant of parseTags: the string is not lower-cased
parseTags_noLower(tags) == IF tags = <<>> THEN <<>> ELSE Fields(tags)

parseTags(tags) == IF tags = <<>> THEN <<>> ELSE Fields(ToLower(tags))

RECURSIVE Join(_)
\* strings.Join(tokens, " ")
Join(tokens) ==
    IF tokens = <<>> THEN <<>>
    ELSE IF Len(tokens) = 1 THEN tokens[1]
    ELSE tokens[1] \o <<32>> \o Join(Tail(tokens))

IsImage(filename) == ToLower(Ext(filename)) \in imageTypes

\* The default page size of a listing
pageSize == 50

\* Mutant of parsePageSize: the page size is always 0
parsePageSize_zero(sizeParam) ==
    IF sizeParam = <<>> THEN [n |-> 0, err |-> FALSE]
    ELSE [n |-> 0, err |-> Atoi(sizeParam).err]

parsePageSize(sizeParam) ==
    IF sizeParam = <<>> THEN [n |-> pageSize, err |-> FALSE] ELSE Atoi(sizeParam)

\* ------------------------------------------------------------ inputs
\* Decimal identifiers "u1", "u2", ... standing for uuid.New().String()
Uuid(k) == <<117>> \o FormatInt(k)

\* Uploaded files (multipart.FileHeader): "c.PNG" an image by its extension,
\* "r.pdf" not an image.
FileInputs ==
    { [Filename |-> <<99, 46, 80, 78, 71>>, Size |-> 3],
      [Filename |-> <<114, 46, 112, 100, 102>>, Size |-> 5] }

\* Values of the "tags" form field: "" and "a B"
TagInputs == { <<>>, <<97, 32, 66>> }

\* Values of the "tags" query parameter of a listing: "" and "B a"
ListTagInputs == { <<>>, <<66, 32, 97>> }

\* Values of the "size" query parameter: absent, "1" and "x"
SizeInputs == { <<>>, <<49>>, <<120>> }

SeqsUpTo(S, n) == UNION { [1..k -> S] : k \in 0..n }

\* Tag strings of a space, a tab, "a" and "B"
TagStrings == SeqsUpTo({32, 9, 97, 66}, MaxTagLen)

\* Identifiers of "u", "1" and "_"
IdStrings == SeqsUpTo({117, 49, 95}, MaxIdLen)

\* The workers that handle requests one at a time
Workers == {1}

\* All workers of the process: worker 2 handles requests concurrently with worker 1
AllWorkers == {1, 2}

\* ------------------------------------------------------------ state
VARIABLES
    bucket,   \* the Cloud Storage bucket: object path -> content
    store,    \* the Firestore collection: document id -> FileMeta
    clock,    \* time.Now().UnixMilli()
    uuids,    \* how many identifiers uuid.New() has handed out
    pc,       \* per worker: the adapter call its handler makes next
    req,      \* per worker: the request being handled
    loc,      \* per worker: the handler's local variables
    resp,     \* per worker: the response written
    pager,    \* the caller paging through GET /api/files
    probe     \* arguments and results of the helpers applied on their own

vars == <<bucket, store, clock, uuids, pc, req, loc, resp, pager, probe>>

Put(f, k, v) == [x \in (DOMAIN f) \cup {k} |-> IF x = k THEN v ELSE f[x]]

Drop(f, k) == [x \in (DOMAIN f) \ {k} |-> f[x]]

EmptyMap == [x \in {} |-> x]

\* ------------------------------------------------------------ bucket adapter
\* bucket.Write: the object holds the file's bytes; returns the byte count
BucketWrite(b, path, file) == Put(b, path, [Kind |-> "raw", Size |-> file.Size])

\* thumbnailTranscoder: (written, err) from whether decoding and encoding succeed
thumbnailTranscoder(decodeOk, encodeOk) ==
    IF ~decodeOk THEN [n |-> 0, err |-> TRUE]
    ELSE IF ~encodeOk THEN [n |-> 0, err |-> FALSE]
    ELSE [n |-> -1, err |-> FALSE]

\* What happened inside thumbnailTranscoder: imaging.Decode failed, imaging.Encode
\* failed, or the thumbnail was encoded
TranscodeOutcome(decodeOk, encodeOk) ==
    IF ~decodeOk THEN "DecodeError" ELSE IF ~encodeOk THEN "EncodeError" ELSE "ok"

\* bucket.TransWrite: runs the transcoder into the object writer; the object is
\* committed when the transcoder returns no error.
BucketTransWrite(b, path) == Put(b, path, [Kind |-> "png"])

RECURSIVE BucketDelete(_, _, _)
\* bucket.Delete: deletes the paths in order; k is how many deletions are done
\* before the call returns (all of them unless a deletion fails)
BucketDelete(b, paths, k) ==
    IF k = 0 \/ paths = <<>> THEN b
    ELSE BucketDelete(Drop(b, Head(paths)), Tail(paths), k - 1)

\* ------------------------------------------------------------ firestore adapter
FieldTags == "Tags"
FieldOrderNo == "OrderNo"
FieldPath == "Path"
FieldName == "Name"
FieldSize == "FileSize"

\* firestore.Create: the document stored under id. The createTime and updateTime
\* the Firestore server stamps on a document are not part of this model.
FirestoreCreate(id, record) ==
    [ID |-> id, Path |-> record.Path, Name |-> record.Name,
     FileSize |-> record.FileSize, Tags |-> record.Tags, OrderNo |-> record.OrderNo]

\* firestore.Merge: only the named fields change
FirestoreMerge(doc, fields) ==
    [doc EXCEPT
        !.Tags = IF FieldTags \in DOMAIN fields THEN fields[FieldTags] ELSE @,
        !.OrderNo = IF FieldOrderNo \in DOMAIN fields THEN fields[FieldOrderNo] ELSE @,
        !.Path = IF FieldPath \in DOMAIN fields THEN fields[FieldPath] ELSE @,
        !.Name = IF FieldName \in DOMAIN fields THEN fields[FieldName] ELSE @,
        !.FileSize = IF FieldSize \in DOMAIN fields THEN fields[FieldSize] ELSE @]

\* The elements of a sequence
Range(q) == { q[i] : i \in 1..Len(q) }

RECURSIVE SortDesc(_, _)
\* The documents with the ids in S, by orderNo descending
SortDesc(s, S) ==
    IF S = {} THEN <<>>
    ELSE LET top == CHOOSE a \in S :
                        \A b \in S \ {a} : StrLess(s[b].OrderNo, s[a].OrderNo)
         IN  <<s[top]>> \o SortDesc(s, S \ {top})

\* The first n elements of a sequence
Take(q, n) == SubSeq(q, 1, IF n < Len(q) THEN n ELSE Len(q))

\* firestore.ListByTags: the documents that contain all the tags, by orderNo
\* descending, after the document whose orderNo is the cursor, at most size
ListByTags(s, tags, orderNo, size) ==
    Take(SortDesc(s, { id \in DOMAIN s :
                         /\ Range(tags) \subseteq Range(s[id].Tags)
                         /\ orderNo = <<>> \/ StrLess(s[id].OrderNo, orderNo) }), size)

\* ------------------------------------------------------------ handler helpers
\* Mutant of generateFileMeta: every view gets a thumbnail URL
generateFileMeta_alwaysThumb(result) ==
    [ID |-> result.ID, Name |-> result.Name, Tags |-> result.Tags,
     OrderNo |-> result.OrderNo, FileSize |-> result.FileSize,
     URL |-> toResourceURL(result.Path),
     ThumbURL |-> toResourceURL(toThumbnailPath(result.Path))]

\* The response view of a document (without the two server timestamps)
generateFileMeta(result) ==
    [ID |-> result.ID, Name |-> result.Name, Tags |-> result.Tags,
     OrderNo |-> result.OrderNo, FileSize |-> result.FileSize,
     URL |-> toResourceURL(result.Path),
     ThumbURL |-> IF IsImage(result.Name)
                  THEN toResourceURL(toThumbnailPath(result.Path)) ELSE <<>>]

\* Mutant of NewRecord: Path and Name are swapped
NewRecord_swapped(path, filename, size, tags, orderNo) ==
    [Path |-> filename, Name |-> path, FileSize |-> size, Tags |-> tags,
     OrderNo |-> orderNo]

\* Mutant of NewRecord: the size is the unknown-size value of the thumbnail write
NewRecord_thumbSize(path, filename, size, tags, orderNo) ==
    [Path |-> path, Name |-> filename, FileSize |-> -1, Tags |-> tags,
     OrderNo |-> orderNo]

\* Mutant of ReplaceFields: the path is not replaced
ReplaceFields_noPath(fields, newPath, filename, size) ==
    Put(Put(fields, FieldName, filename), FieldSize, size)

\* Mutant of DeletePaths: the blobs of the first identifier are deleted
DeletePaths_first(path) ==
    <<toBucketPath(Uuid(1)), toThumbnailPath(toBucketPath(Uuid(1)))>>

\* The firestore.FileMetaRec PostFiles builds
NewRecord(path, filename, size, tags, orderNo) ==
    [Path |-> path, Name |-> filename, FileSize |-> size, Tags |-> tags,
     OrderNo |-> orderNo]

\* Mutant of UpdateFields: the tags are left out of the field map
UpdateFields_noTags(tags, orderNo) == (FieldOrderNo :> orderNo)

\* Mutant of UpdateFields: the orderNo is left out of the field map
UpdateFields_noOrderNo(tags, orderNo) == (FieldTags :> tags)

\* Mutant of UpdateFields: the file size is reset as well
UpdateFields_sizeZero(tags, orderNo) ==
    (FieldTags :> tags) @@ (FieldOrderNo :> orderNo) @@ (FieldSize :> 0)

\* The field map UpdateFile starts from
UpdateFields(tags, orderNo) == (FieldTags :> tags) @@ (FieldOrderNo :> orderNo)

\* Mutant of ReplaceFields: the name is not replaced
ReplaceFields_noName(fields, newPath, filename, size) ==
    Put(Put(fields, FieldPath, newPath), FieldSize, size)

\* The field map after a replacement file was written
ReplaceFields(fields, newPath, filename, size) ==
    Put(Put(Put(fields, FieldPath, newPath), FieldName, filename), FieldSize, size)

\* Mutant of DeletePaths: the thumbnail path is passed twice
DeletePaths_thumbTwice(path) == <<toThumbnailPath(path), toThumbnailPath(path)>>

\* Mutant of DeletePaths: the primary path is passed twice
DeletePaths_primaryTwice(path) == <<path, path>>

\* Mutant of DeletePaths: only the thumbnail is deleted
DeletePaths_thumbOnly(path) == <<toThumbnailPath(path)>>

\* The paths deleteBucketFile passes to bucket.Delete, in order
DeletePaths(path) == <<path, toThumbnailPath(path)>>

\* response(c, code, body): a nil body is the empty option
Response(code, body) == [status |-> code, body |-> body]

\* log.Panicln: the handler unwinds; the boundary reports an internal failure
Panic == [status |-> "Panic", body |-> <<>>]

\* Mutant of UploadFailure: the views collected so far are sent with the error
UploadFailure_partial(filesarray) == Response("BadRequest", <<filesarray>>)

\* PostFiles when uploadToBucket returns an error
UploadFailure(filesarray) == Response("BadRequest", <<>>)

\* Mutant of GetFailure: not-found is not told apart from other errors
GetFailure_alwaysPanic(err) == Panic

\* UpdateFile and DeleteFile when firestore.Get returns an error
GetFailure(err) == IF err = "NotFound" THEN Response("NotFound", <<>>) ELSE Panic

LocInit ==
    [i |-> 0, id |-> <<>>, path |-> <<>>, size |-> 0, tags |-> <<>>, now |-> 0,
     meta |-> <<>>, fields |-> <<>>, filesarray |-> <<>>, calls |-> <<>>,
     err |-> "nil", transcode |-> "none"]

ReqInit ==
    [op |-> "none", id |-> <<>>, files |-> <<>>, tags |-> <<>>, orderNo |-> <<>>,
     size |-> <<>>]

RespInit == [status |-> "none", body |-> <<>>]

\* The caller is not paging
PagerInit == [active |-> FALSE, tags |-> <<>>, size |-> <<>>, orderNo |-> <<>>,
              pages |-> <<>>, complete |-> FALSE]

\* No helper has been applied
ProbeInit ==
    [fn |-> "none", in |-> <<>>, out |-> <<>>, again |-> <<>>, ids |-> <<>>,
     paths |-> <<>>]

Init ==
    /\ bucket = EmptyMap
    /\ store = EmptyMap
    /\ clock = ClockMin
    /\ uuids = 0
    /\ pc = [w \in AllWorkers |-> "idle"]
    /\ req = [w \in AllWorkers |-> ReqInit]
    /\ loc = [w \in AllWorkers |-> LocInit]
    /\ resp = [w \in AllWorkers |-> RespInit]
    /\ pager = PagerInit
    /\ probe = ProbeInit

\* The handler of worker w ends with response r
Finish(w, r) ==
    /\ pc' = [pc EXCEPT ![w] = "done"]
    /\ resp' = [resp EXCEPT ![w] = r]

\* The handler of worker w goes on to the adapter call at label l
Goto(w, l) ==
    /\ pc' = [pc EXCEPT ![w] = l]
    /\ resp' = resp

\* The locals of worker w after the adapter call `name` returned err
Called(w, name, err) == [loc[w] EXCEPT !.calls = Append(@, name), !.err = err]

\* ------------------------------------------------------------ PostFiles
StartUpload(w, files, tags) ==
    /\ pc[w] = "idle"
    /\ req' = [req EXCEPT ![w] = [ReqInit EXCEPT !.op = "upload", !.files = files, !.tags = tags]]
    /\ IF files = <<>>
       THEN \* c.Bind: the required files part is missing
            /\ Finish(w, Response("BadRequest", <<>>))
            /\ loc' = loc
       ELSE /\ Goto(w, "post_write")
            /\ loc' = [loc EXCEPT ![w] = [LocInit EXCEPT !.i = 1, !.tags = parseTags(tags)]]
    /\ UNCHANGED <<bucket, store, clock, uuids, pager, probe>>

\* uploadToBucket, first half: writeFileToBucket(path, file, nil)
PostWrite(w, ok) ==
    /\ pc[w] = "post_write"
    /\ LET file == req[w].files[loc[w].i]
           id == Uuid(uuids + 1)
           path == toBucketPath(id)
       IN  /\ uuids' = uuids + 1
           /\ IF ok
              THEN /\ bucket' = BucketWrite(bucket, path, file)
                   /\ loc' = [loc EXCEPT ![w] =
                                [Called(w, "bucket.Write", "nil") EXCEPT
                                    !.id = id, !.path = path, !.size = file.Size,
                                    !.transcode = "none"]]
                   /\ Goto(w, IF IsImage(file.Filename) THEN "post_thumb" ELSE "post_create")
              ELSE /\ bucket' = bucket
                   /\ loc' = [loc EXCEPT ![w] =
                                [Called(w, "bucket.Write", "IOError") EXCEPT
                                    !.id = id, !.path = path, !.transcode = "none"]]
                   /\ Finish(w, UploadFailure(loc[w].filesarray))
    /\ UNCHANGED <<store, clock, req, pager, probe>>

\* uploadToBucket, second half: writeThumbnailToBucket for an image
PostThumb(w, decodeOk, encodeOk, ok) ==
    /\ pc[w] = "post_thumb"
    /\ LET t == thumbnailTranscoder(decodeOk, encodeOk)
       IN  IF ok /\ ~t.err
           THEN /\ bucket' = BucketTransWrite(bucket, toThumbnailPath(loc[w].path))
                /\ loc' = [loc EXCEPT ![w] =
                            [Called(w, "bucket.TransWrite", "nil") EXCEPT
                                !.transcode = TranscodeOutcome(decodeOk, encodeOk)]]
                /\ Goto(w, "post_create")
           ELSE /\ bucket' = bucket
                /\ loc' = [loc EXCEPT ![w] =
                            [Called(w, "bucket.TransWrite",
                                    IF t.err THEN "DecodeError" ELSE "IOError")
                             EXCEPT !.transcode = TranscodeOutcome(decodeOk, encodeOk)]]
                /\ Finish(w, UploadFailure(loc[w].filesarray))
    /\ UNCHANGED <<store, clock, uuids, req, pager, probe>>

\* firestore.Create of the record, then the next file or the response
PostCreate(w, ok) ==
    /\ pc[w] = "post_create"
    /\ LET file == req[w].files[loc[w].i]
           id == loc[w].id
           record == NewRecord(loc[w].path, Base(file.Filename), loc[w].size,
                               loc[w].tags, getOrderNo(id, clock))
           docSnap == FirestoreCreate(id, record)
           filesarray == Append(loc[w].filesarray, generateFileMeta(docSnap))
       IN  IF ok /\ id \notin DOMAIN store
           THEN /\ store' = Put(store, id, docSnap)
                /\ loc' = [loc EXCEPT ![w] =
                            [Called(w, "firestore.Create", "nil") EXCEPT
                                !.filesarray = filesarray, !.now = clock,
                                !.i = IF @ = Len(req[w].files) THEN @ ELSE @ + 1]]
                /\ IF loc[w].i = Len(req[w].files)
                   THEN Finish(w, Response("Created", <<filesarray>>))
                   ELSE Goto(w, "post_write")
           ELSE /\ store' = store
                /\ loc' = [loc EXCEPT ![w] =
                            [Called(w, "firestore.Create",
                                    IF ok THEN "AlreadyExists" ELSE "Unavailable")
                             EXCEPT !.now = clock]]
                /\ Finish(w, Panic)
    /\ UNCHANGED <<bucket, clock, uuids, req, pager, probe>>

\* ------------------------------------------------------------ UpdateFile
StartUpdate(w, id) ==
    /\ pc[w] = "idle"
    /\ req' = [req EXCEPT ![w] = [ReqInit EXCEPT !.op = "update", !.id = id]]
    /\ loc' = [loc EXCEPT ![w] = LocInit]
    /\ Goto(w, "update_get")
    /\ UNCHANGED <<bucket, store, clock, uuids, pager, probe>>

\* firestore.Get; then the multipart form is read (its optional file and its
\* tags), and the field map is built with a fresh orderNo
UpdateGet(w, ok, files, tags) ==
    /\ pc[w] = "update_get"
    /\ LET id == req[w].id
           err == IF ~ok THEN "Unavailable"
                  ELSE IF id \notin DOMAIN store THEN "NotFound" ELSE "nil"
       IN  IF err # "nil"
           THEN /\ loc' = [loc EXCEPT ![w] = Called(w, "firestore.Get", err)]
                /\ Finish(w, GetFailure(err))
                /\ req' = req
           ELSE /\ req' = [req EXCEPT ![w].files = files, ![w].tags = tags]
                /\ loc' = [loc EXCEPT ![w] =
                            [Called(w, "firestore.Get", "nil") EXCEPT
                                !.meta = <<store[id]>>, !.tags = parseTags(tags),
                                !.now = clock,
                                !.fields = UpdateFields(parseTags(tags),
                                                        getOrderNo(id, clock))]]
                /\ Goto(w, IF files # <<>> THEN "update_delete" ELSE "update_merge")
    /\ UNCHANGED <<bucket, store, clock, uuids, pager, probe>>

\* updateBucketFile: deleteBucketFile of the old path; k deletions are done
UpdateDelete(w, k) ==
    /\ pc[w] = "update_delete"
    /\ LET path == loc[w].meta[1].Path
           paths == DeletePaths(path)
       IN  IF path = <<>>
           THEN /\ k = Len(paths)
                /\ Goto(w, "update_write")
                /\ UNCHANGED <<bucket, loc>>
           ELSE /\ k <= Len(paths)
                /\ bucket' = BucketDelete(bucket, paths, k)
                /\ IF k = Len(paths)
                   THEN /\ loc' = [loc EXCEPT ![w] = Called(w, "bucket.Delete", "nil")]
                        /\ Goto(w, "update_write")
                   ELSE /\ loc' = [loc EXCEPT ![w] = Called(w, "bucket.Delete", "IOError")]
                        /\ Finish(w, Panic)
    /\ UNCHANGED <<store, clock, uuids, req, pager, probe>>

\* updateBucketFile: a new identifier and path, then uploadToBucket's first half
UpdateWrite(w, ok) ==
    /\ pc[w] = "update_write"
    /\ LET file == req[w].files[1]
           id == Uuid(uuids + 1)
           newPath == toBucketPath(id)
       IN  /\ uuids' = uuids + 1
           /\ IF ok
              THEN /\ bucket' = BucketWrite(bucket, newPath, file)
                   /\ loc' = [loc EXCEPT ![w] =
                                [Called(w, "bucket.Write", "nil") EXCEPT
                                    !.id = id, !.path = newPath, !.size = file.Size,
                                    !.fields = IF IsImage(file.Filename) THEN @
                                               ELSE ReplaceFields(@, newPath,
                                                        Base(file.Filename), file.Size)]]
                   /\ Goto(w, IF IsImage(file.Filename) THEN "update_thumb" ELSE "update_merge")
              ELSE /\ bucket' = bucket
                   /\ loc' = [loc EXCEPT ![w] =
                                [Called(w, "bucket.Write", "IOError") EXCEPT
                                    !.id = id, !.path = newPath]]
                   /\ Finish(w, Panic)
    /\ UNCHANGED <<store, clock, req, pager, probe>>

\* uploadToBucket's second half for a replacement image
UpdateThumb(w, decodeOk, encodeOk, ok) ==
    /\ pc[w] = "update_thumb"
    /\ LET file == req[w].files[1]
           t == thumbnailTranscoder(decodeOk, encodeOk)
       IN  IF ok /\ ~t.err
           THEN /\ bucket' = BucketTransWrite(bucket, toThumbnailPath(loc[w].path))
                /\ loc' = [loc EXCEPT ![w] =
                            [Called(w, "bucket.TransWrite", "nil") EXCEPT
                                !.transcode = TranscodeOutcome(decodeOk, encodeOk),
                                !.fields = ReplaceFields(@, loc[w].path,
                                              Base(file.Filename), loc[w].size)]]
                /\ Goto(w, "update_merge")
           ELSE /\ bucket' = bucket
                /\ loc' = [loc EXCEPT ![w] =
                            [Called(w, "bucket.TransWrite",
                                    IF t.err THEN "DecodeError" ELSE "IOError")
                             EXCEPT !.transcode = TranscodeOutcome(decodeOk, encodeOk)]]
                /\ Finish(w, Panic)
    /\ UNCHANGED <<store, clock, uuids, req, pager, probe>>

\* firestore.Merge of the field map, then the response
UpdateMerge(w, ok) ==
    /\ pc[w] = "update_merge"
    /\ LET id == req[w].id
       IN  IF ok /\ id \in DOMAIN store
           THEN LET newMeta == FirestoreMerge(store[id], loc[w].fields)
                IN  /\ store' = [store EXCEPT ![id] = newMeta]
                    /\ loc' = [loc EXCEPT ![w] = Called(w, "firestore.Merge", "nil")]
                    /\ Finish(w, Response("OK", <<generateFileMeta(newMeta)>>))
           ELSE /\ store' = store
                /\ loc' = [loc EXCEPT ![w] =
                            Called(w, "firestore.Merge",
                                   IF ok THEN "NotFound" ELSE "Unavailable")]
                /\ Finish(w, Panic)
    /\ UNCHANGED <<bucket, clock, uuids, req, pager, probe>>

\* ------------------------------------------------------------ DeleteFile
StartDelete(w, id) ==
    /\ pc[w] = "idle"
    /\ req' = [req EXCEPT ![w] = [ReqInit EXCEPT !.op = "delete", !.id = id]]
    /\ loc' = [loc EXCEPT ![w] = LocInit]
    /\ Goto(w, "delete_get")
    /\ UNCHANGED <<bucket, store, clock, uuids, pager, probe>>

\* firestore.Get of the document to delete
DeleteGet(w, ok) ==
    /\ pc[w] = "delete_get"
    /\ LET id == req[w].id
           err == IF ~ok THEN "Unavailable"
                  ELSE IF id \notin DOMAIN store THEN "NotFound" ELSE "nil"
       IN  IF err # "nil"
           THEN /\ loc' = [loc EXCEPT ![w] = Called(w, "firestore.Get", err)]
                /\ Finish(w, GetFailure(err))
           ELSE /\ loc' = [loc EXCEPT ![w] =
                            [Called(w, "firestore.Get", "nil") EXCEPT !.meta = <<store[id]>>]]
                /\ Goto(w, "delete_bucket")
    /\ UNCHANGED <<bucket, store, clock, uuids, req, pager, probe>>

\* deleteBucketFile(doc.Path); k deletions are done
DeleteBucket(w, k) ==
    /\ pc[w] = "delete_bucket"
    /\ LET path == loc[w].meta[1].Path
           paths == DeletePaths(path)
       IN  IF path = <<>>
           THEN /\ k = Len(paths)
                /\ Goto(w, "delete_record")
                /\ UNCHANGED <<bucket, loc>>
           ELSE /\ k <= Len(paths)
                /\ bucket' = BucketDelete(bucket, paths, k)
                /\ IF k = Len(paths)
                   THEN /\ loc' = [loc EXCEPT ![w] = Called(w, "bucket.Delete", "nil")]
                        /\ Goto(w, "delete_record")
                   ELSE /\ loc' = [loc EXCEPT ![w] = Called(w, "bucket.Delete", "IOError")]
                        /\ Finish(w, Panic)
    /\ UNCHANGED <<store, clock, uuids, req, pager, probe>>

\* firestore.Delete, then the response
DeleteRecord(w, ok) ==
    /\ pc[w] = "delete_record"
    /\ LET id == req[w].id
       IN  IF ok /\ id \in DOMAIN store
           THEN /\ store' = Drop(store, id)
                /\ loc' = [loc EXCEPT ![w] = Called(w, "firestore.Delete", "nil")]
                /\ Finish(w, Response("NoContent", <<>>))
           ELSE /\ store' = store
                /\ loc' = [loc EXCEPT ![w] =
                            Called(w, "firestore.Delete",
                                   IF ok THEN "NotFound" ELSE "Unavailable")]
                /\ Finish(w, Panic)
    /\ UNCHANGED <<bucket, clock, uuids, req, pager, probe>>

\* ------------------------------------------------------------ GetFileList
\* The query parameters are parsed; an unparsable size ends the request
StartList(w, tags, orderNo, sizeParam) ==
    /\ pc[w] = "idle"
    /\ req' = [req EXCEPT ![w] =
                [ReqInit EXCEPT !.op = "list", !.tags = tags, !.orderNo = orderNo,
                                !.size = sizeParam]]
    /\ LET size == parsePageSize(sizeParam)
       IN  IF size.err
           THEN /\ Finish(w, Response("BadRequest", <<>>))
                /\ loc' = [loc EXCEPT ![w] = LocInit]
           ELSE /\ Goto(w, "list_query")
                /\ loc' = [loc EXCEPT ![w] =
                            [LocInit EXCEPT !.tags = parseTags(tags), !.size = size.n]]
    /\ UNCHANGED <<bucket, store, clock, uuids, pager, probe>>

\* firestore.ListByTags, then the views of the documents are sent
ListQuery(w, ok) ==
    /\ pc[w] = "list_query"
    /\ IF ok
       THEN LET docs == ListByTags(store, loc[w].tags, req[w].orderNo, loc[w].size)
                results == [i \in 1..Len(docs) |-> generateFileMeta(docs[i])]
            IN  /\ loc' = [loc EXCEPT ![w] = Called(w, "firestore.ListByTags", "nil")]
                /\ Finish(w, Response("OK", <<results>>))
       ELSE /\ loc' = [loc EXCEPT ![w] =
                        Called(w, "firestore.ListByTags", "Unavailable")]
            /\ Finish(w, Panic)
    /\ UNCHANGED <<bucket, store, clock, uuids, req, pager, probe>>

\* ------------------------------------------------------------ the paging caller
\* The caller starts to page through the listing for a tag string and a size
PagerBegin(tags, sizeParam) ==
    /\ ~pager.active
    /\ pager' = [PagerInit EXCEPT !.active = TRUE, !.tags = tags, !.size = sizeParam]
    /\ UNCHANGED <<bucket, store, clock, uuids, pc, req, loc, resp, probe>>

\* The caller sends its next request, with the cursor it holds
PagerRequest(w) ==
    /\ pager.active
    /\ ~pager.complete
    /\ StartList(w, pager.tags, pager.orderNo, pager.size)

\* The caller receives the response of worker w: a page that is not empty is
\* kept and its last orderNo becomes the cursor; an empty page ends the paging,
\* and so does a failure
PagerReceive(w) ==
    /\ pager.active
    /\ pc[w] = "done"
    /\ req[w].op = "list"
    /\ pager' =
          IF resp[w].status # "OK" THEN PagerInit
          ELSE LET page == resp[w].body[1]
               IN  IF page = <<>> THEN [pager EXCEPT !.complete = TRUE]
                   ELSE [pager EXCEPT !.pages = Append(@, page),
                                      !.orderNo = page[Len(page)].OrderNo]
    /\ pc' = [pc EXCEPT ![w] = "idle"]
    /\ req' = [req EXCEPT ![w] = ReqInit]
    /\ loc' = [loc EXCEPT ![w] = LocInit]
    /\ resp' = [resp EXCEPT ![w] = RespInit]
    /\ UNCHANGED <<bucket, store, clock, uuids, probe>>

\* The caller has all the pages and stops paging
PagerEnd ==
    /\ pager.complete
    /\ pager' = PagerInit
    /\ UNCHANGED <<bucket, store, clock, uuids, pc, req, loc, resp, probe>>

\* ------------------------------------------------------------ scheduling
\* The process dies between two adapter calls: the handler's locals are lost
\* and no response is written
Crash(w) ==
    /\ pc[w] \notin {"idle", "done"}
    /\ pc' = [pc EXCEPT ![w] = "idle"]
    /\ req' = [req EXCEPT ![w] = ReqInit]
    /\ loc' = [loc EXCEPT ![w] = LocInit]
    /\ resp' = [resp EXCEPT ![w] = RespInit]
    /\ UNCHANGED <<bucket, store, clock, uuids, pager, probe>>

\* The handler has returned; the worker takes the next request
Return(w) ==
    /\ pc[w] = "done"
    /\ pc' = [pc EXCEPT ![w] = "idle"]
    /\ req' = [req EXCEPT ![w] = ReqInit]
    /\ loc' = [loc EXCEPT ![w] = LocInit]
    /\ resp' = [resp EXCEPT ![w] = RespInit]
    /\ UNCHANGED <<bucket, store, clock, uuids, pager, probe>>

\* The millisecond clock advances
Tick ==
    /\ clock < MaxClock
    /\ clock' = clock + 1
    /\ UNCHANGED <<bucket, store, uuids, pc, req, loc, resp, pager, probe>>

RequestIds == { Uuid(k) : k \in 1..MaxUuid }

\* uuid.New() can still hand out n identifiers of the max a run may use
UuidsLeft(n, max) == uuids + n <= max

\* Requests are handled one at a time; any adapter call may fail and the
\* process may die between two calls.
Next ==
    \/ Tick
    \/ \E w \in Workers :
        \/ \E files \in SeqsUpTo(FileInputs, MaxFiles), tags \in TagInputs :
              UuidsLeft(Len(files), MaxUuid) /\ StartUpload(w, files, tags)
        \/ \E ok \in BOOLEAN : PostWrite(w, ok)
        \/ \E decodeOk \in BOOLEAN, encodeOk \in BOOLEAN, ok \in BOOLEAN :
              PostThumb(w, decodeOk, encodeOk, ok)
        \/ \E ok \in BOOLEAN : PostCreate(w, ok)
        \/ \E id \in RequestIds : StartUpdate(w, id)
        \/ \E ok \in BOOLEAN, files \in SeqsUpTo(FileInputs, 1), tags \in TagInputs :
              UuidsLeft(Len(files), MaxUuid) /\ UpdateGet(w, ok, files, tags)
        \/ \E k \in 0..2 : UpdateDelete(w, k)
        \/ \E ok \in BOOLEAN : UpdateWrite(w, ok)
        \/ \E decodeOk \in BOOLEAN, encodeOk \in BOOLEAN, ok \in BOOLEAN :
              UpdateThumb(w, decodeOk, encodeOk, ok)
        \/ \E ok \in BOOLEAN : UpdateMerge(w, ok)
        \/ \E id \in RequestIds : StartDelete(w, id)
        \/ \E ok \in BOOLEAN : DeleteGet(w, ok)
        \/ \E k \in 0..2 : DeleteBucket(w, k)
        \/ \E ok \in BOOLEAN : DeleteRecord(w, ok)
        \/ Crash(w)
        \/ Return(w)

Spec == Init /\ [][Next]_vars

\* Requests are handled one at a time, every adapter call succeeds, the
\* transcoder succeeds and the process never dies.
NextNoFail ==
    \/ Tick
    \/ \E w \in Workers :
        \/ \E files \in SeqsUpTo(FileInputs, MaxFiles), tags \in TagInputs :
              UuidsLeft(Len(files), MaxUuid) /\ StartUpload(w, files, tags)
        \/ PostWrite(w, TRUE)
        \/ PostThumb(w, TRUE, TRUE, TRUE)
        \/ PostCreate(w, TRUE)
        \/ \E id \in RequestIds : StartUpdate(w, id)
        \/ \E files \in SeqsUpTo(FileInputs, 1), tags \in TagInputs :
              UuidsLeft(Len(files), MaxUuid) /\ UpdateGet(w, TRUE, files, tags)
        \/ UpdateDelete(w, 2)
        \/ UpdateWrite(w, TRUE)
        \/ UpdateThumb(w, TRUE, TRUE, TRUE)
        \/ UpdateMerge(w, TRUE)
        \/ \E id \in RequestIds : StartDelete(w, id)
        \/ DeleteGet(w, TRUE)
        \/ DeleteBucket(w, 2)
        \/ DeleteRecord(w, TRUE)
        \/ Return(w)

SpecNoFail == Init /\ [][NextNoFail]_vars

\* The worker that handles the listing requests
Lister == 2

\* Worker 1 handles uploads, updates and deletes one at a time, without
\* failures; between two of them a caller pages through the listing, served by
\* the lister, while the data is left alone.
NextList ==
    \/ Tick
    \/ \E w \in Workers :
        \/ \E files \in SeqsUpTo(FileInputs, MaxFiles), tags \in TagInputs :
              /\ ~pager.active
              /\ UuidsLeft(Len(files), MaxUuid)
              /\ StartUpload(w, files, tags)
        \/ PostWrite(w, TRUE)
        \/ PostThumb(w, TRUE, TRUE, TRUE)
        \/ PostCreate(w, TRUE)
        \/ \E id \in RequestIds : ~pager.active /\ StartUpdate(w, id)
        \/ \E files \in SeqsUpTo(FileInputs, 1), tags \in TagInputs :
              UuidsLeft(Len(files), MaxUuid) /\ UpdateGet(w, TRUE, files, tags)
        \/ UpdateDelete(w, 2)
        \/ UpdateWrite(w, TRUE)
        \/ UpdateThumb(w, TRUE, TRUE, TRUE)
        \/ UpdateMerge(w, TRUE)
        \/ \E id \in RequestIds : ~pager.active /\ StartDelete(w, id)
        \/ DeleteGet(w, TRUE)
        \/ DeleteBucket(w, 2)
        \/ DeleteRecord(w, TRUE)
        \/ ~pager.active /\ Return(w)
    \/ \E tags \in ListTagInputs, sizeParam \in SizeInputs :
          /\ \A w \in Workers : pc[w] \in {"idle", "done"}
          /\ PagerBegin(tags, sizeParam)
    \/ PagerRequest(Lister)
    \/ \E ok \in BOOLEAN : ListQuery(Lister, ok)
    \/ PagerReceive(Lister)
    \/ PagerEnd

SpecList == Init /\ [][NextList]_vars

\* ------------------------------------------------------------ two workers
\* The identifiers worker w will still take for the request it has accepted
Reserved(w) ==
    IF pc[w] = "post_write" THEN Len(req[w].files) - loc[w].i + 1
    ELSE IF pc[w] \in {"post_thumb", "post_create"} THEN Len(req[w].files) - loc[w].i
    ELSE IF pc[w] \in {"update_delete", "update_write"} THEN 1
    ELSE 0

\* Identifiers are left for n more files, counting what the workers reserved
ConcUuidsLeft(n) == UuidsLeft(n + Reserved(1) + Reserved(2), MaxConcUuid)

\* Two workers handle requests at the same time, within one millisecond:
\* worker 1 uploads of one file, both workers deletes and updates, all with
\* the tags "a B"; no adapter call fails for a transport reason and the
\* process never dies.
NextConc ==
    \/ \E files \in [1..1 -> FileInputs], tags \in {<<97, 32, 66>>} :
          ConcUuidsLeft(Len(files)) /\ StartUpload(1, files, tags)
    \/ PostWrite(1, TRUE)
    \/ PostThumb(1, TRUE, TRUE, TRUE)
    \/ PostCreate(1, TRUE)
    \/ \E w \in AllWorkers :
        \/ \E id \in RequestIds : StartUpdate(w, id)
        \/ \E files \in SeqsUpTo(FileInputs, 1), tags \in {<<97, 32, 66>>} :
              ConcUuidsLeft(Len(files)) /\ UpdateGet(w, TRUE, files, tags)
        \/ UpdateDelete(w, 2)
        \/ UpdateWrite(w, TRUE)
        \/ UpdateThumb(w, TRUE, TRUE, TRUE)
        \/ UpdateMerge(w, TRUE)
        \/ \E id \in RequestIds : StartDelete(w, id)
        \/ DeleteGet(w, TRUE)
        \/ DeleteBucket(w, 2)
        \/ DeleteRecord(w, TRUE)
        \/ Return(w)

SpecConc == Init /\ [][NextConc]_vars

\* ------------------------------------------------------------ helpers on their own
\* No request is handled; a tag string or two identifiers are given
InitHelpers ==
    /\ bucket = EmptyMap
    /\ store = EmptyMap
    /\ clock = ClockMin
    /\ uuids = 0
    /\ pc = [w \in AllWorkers |-> "idle"]
    /\ req = [w \in AllWorkers |-> ReqInit]
    /\ loc = [w \in AllWorkers |-> LocInit]
    /\ resp = [w \in AllWorkers |-> RespInit]
    /\ pager = PagerInit
    /\ probe \in { [ProbeInit EXCEPT !.in = t] : t \in TagStrings }
                \cup { [ProbeInit EXCEPT !.ids = <<a, b>>] : a, b \in IdStrings }

\* parseTags of the tag string
Normalize ==
    /\ probe.fn = "none"
    /\ probe.ids = <<>>
    /\ probe' = [probe EXCEPT !.fn = "parseTags", !.out = parseTags(probe.in)]
    /\ UNCHANGED <<bucket, store, clock, uuids, pc, req, loc, resp, pager>>

\* parseTags of the tokens joined by spaces
Renormalize ==
    /\ probe.fn = "parseTags"
    /\ probe' = [probe EXCEPT !.fn = "parseTags again",
                               !.again = parseTags(Join(probe.out))]
    /\ UNCHANGED <<bucket, store, clock, uuids, pc, req, loc, resp, pager>>

\* The primary paths of the two identifiers and the thumbnail path of the first
DerivePaths ==
    /\ probe.fn = "none"
    /\ probe.ids # <<>>
    /\ probe' = [probe EXCEPT !.fn = "paths",
                               !.paths = <<toBucketPath(probe.ids[1]),
                                           toBucketPath(probe.ids[2]),
                                           toThumbnailPath(toBucketPath(probe.ids[1]))>>]
    /\ UNCHANGED <<bucket, store, clock, uuids, pc, req, loc, resp, pager>>

NextHelpers == Normalize \/ Renormalize \/ DerivePaths

SpecHelpers == InitHelpers /\ [][NextHelpers]_vars

\* ------------------------------------------------------------ properties
Done(w) == pc[w] = "done"

Succeeded(w, op, status) ==
    Done(w) /\ req[w].op = op /\ resp[w].status = status

\* The objects written by bucket.Write (primary blobs)
PrimaryPaths == { p \in DOMAIN bucket : bucket[p].Kind = "raw" }

\* The documents whose primary blob is missing
Dangling(s, b) == { id \in DOMAIN s : s[id].Path \notin DOMAIN b }

BucketCalls(calls) ==
    { j \in 1..Len(calls) : calls[j] \in {"bucket.Write", "bucket.TransWrite", "bucket.Delete"} }

\* The millisecond timestamp an orderNo starts with
OrderMs(orderNo) ==
    LET dash == CHOOSE i \in 1..Len(orderNo) :
                    orderNo[i] = 45 /\ \A j \in 1..(i - 1) : orderNo[j] # 45
    IN  ParseInt(SubSeq(orderNo, 1, dash - 1))

\* C1 (as claimed): in every reachable state every metadata record has its
\* primary blob present in the bucket at the record's path.
C1_NoDanglingRecord == Dangling(store, bucket) = {}

\* C1 (amended): a step that creates a metadata record or changes its path leaves
\* it with its primary blob present, and a record loses its primary blob only in the
\* blob-delete step of a Delete or of an Update with a replacement file on that
\* record; failures of Upload leave orphaned blobs only.
C1_DanglingOnlyByBlobDelete ==
    [][\A id \in Dangling(store', bucket') :
          /\ id \in DOMAIN store
          /\ store'[id].Path = store[id].Path
          /\ \/ id \in Dangling(store, bucket)
             \/ \E w \in Workers :
                   /\ pc[w] \in {"delete_bucket", "update_delete"}
                   /\ req[w].id = id]_vars

\* C1 witness: an Update with a replacement file has removed the old primary
\* blob and the record still names it.
C1_Witness ==
    \E w \in Workers :
        /\ pc[w] = "update_write"
        /\ req[w].id \in Dangling(store, bucket)

\* C2 (as claimed): while or after Delete(id) runs on an existing record, the
\* record is never present with its primary blob already removed.
C2_NoRecordWithoutBlob ==
    \A w \in Workers :
        (req[w].op = "delete" /\ loc[w].meta # <<>> /\ req[w].id \in DOMAIN store)
            => loc[w].meta[1].Path \in DOMAIN bucket

\* C2 (amended): at every step boundary of Delete(id) on an existing record, and
\* after it ends, the record's blobs are never left behind without the record:
\* once the record is gone, its primary and thumbnail blobs are gone. At worst
\* the record is still present with its blobs already removed.
C2_NoBlobWithoutRecord ==
    \A w \in Workers :
        (req[w].op = "delete" /\ loc[w].meta # <<>> /\ req[w].id \notin DOMAIN store)
            => /\ loc[w].meta[1].Path \notin DOMAIN bucket
               /\ toThumbnailPath(loc[w].meta[1].Path) \notin DOMAIN bucket

\* C2 witness: Delete has removed the blobs and not yet the record.
C2_Witness ==
    \E w \in Workers :
        /\ pc[w] = "delete_record"
        /\ req[w].id \in DOMAIN store
        /\ loc[w].meta[1].Path \notin DOMAIN bucket

\* C3: when no adapter call fails and no request is in progress, the primary
\* blobs in the bucket are exactly the paths of the metadata records, and no
\* two records share a path.
C3_RecordIffPrimaryBlob ==
    (\A w \in Workers : pc[w] \in {"idle", "done"})
        => /\ PrimaryPaths = { store[id].Path : id \in DOMAIN store }
           /\ \A a, b \in DOMAIN store : store[a].Path = store[b].Path => a = b

\* C3 witness: an Update with a replacement file has completed.
C3_Witness ==
    \E w \in Workers :
        /\ Succeeded(w, "update", "OK")
        /\ req[w].files # <<>>
        /\ PrimaryPaths # {}

\* C4: after Delete(id) succeeds, the primary blob at the record's path and the
\* thumbnail blob at path + "_small" are absent and get(id) finds no record.
C4_DeleteRemovesAll ==
    \A w \in Workers :
        Succeeded(w, "delete", "NoContent")
            => /\ loc[w].meta[1].Path \notin DOMAIN bucket
               /\ toThumbnailPath(loc[w].meta[1].Path) \notin DOMAIN bucket
               /\ req[w].id \notin DOMAIN store

\* C4 witness: Delete succeeded on an image record.
C4_Witness ==
    \E w \in Workers :
        /\ Succeeded(w, "delete", "NoContent")
        /\ IsImage(loc[w].meta[1].Name)

\* C5: after a successful Update with a replacement file the record keeps its
\* id, its path is the path derived from the newest identifier and differs from
\* the previous path, its name is the new file's base name, its fileSize is the
\* size of the new primary blob, which is present, and the old primary and
\* thumbnail blobs are absent.
C5_ReplaceMovesRecord ==
    \A w \in Workers :
        (Succeeded(w, "update", "OK") /\ req[w].files # <<>>)
            => LET id == req[w].id
                   old == loc[w].meta[1]
                   file == req[w].files[1]
               IN  /\ id \in DOMAIN store
                   /\ store[id].ID = id
                   /\ old.ID = id
                   /\ store[id].Path = BucketBasePath \o Uuid(uuids)
                   /\ store[id].Path # old.Path
                   /\ store[id].Name = file.Filename
                   /\ store[id].Path \in PrimaryPaths
                   /\ store[id].FileSize = bucket[store[id].Path].Size
                   /\ store[id].FileSize = file.Size
                   /\ old.Path \notin DOMAIN bucket
                   /\ toThumbnailPath(old.Path) \notin DOMAIN bucket

\* C5 witness: an image record was replaced by a file of another name.
C5_Witness ==
    \E w \in Workers :
        /\ Succeeded(w, "update", "OK")
        /\ req[w].files # <<>>
        /\ IsImage(loc[w].meta[1].Name)
        /\ loc[w].meta[1].Name # req[w].files[1].Filename

\* C6: after a successful Update the stored tags are exactly the normalized
\* tag string of the request, whatever tags the record had before.
C6_TagsReplaced ==
    \A w \in Workers :
        Succeeded(w, "update", "OK")
            => /\ store[req[w].id].Tags = parseTags(req[w].tags)
               /\ resp[w].body[1].Tags = parseTags(req[w].tags)

\* C6 witness: the record had tags that the new tag string does not contain.
C6_Witness ==
    \E w \in Workers :
        /\ Succeeded(w, "update", "OK")
        /\ loc[w].meta[1].Tags = << <<97>>, <<98>> >>
        /\ store[req[w].id].Tags = <<>>

\* C7 (as claimed): after every successful Update the record's orderNo is
\* strictly greater than the orderNo it had before, in byte-wise string order.
C7_OrderNoStrictlyGreater ==
    \A w \in Workers :
        Succeeded(w, "update", "OK")
            => StrLess(loc[w].meta[1].OrderNo, store[req[w].id].OrderNo)

\* C7 (amended): after a successful Update the record's orderNo is the decimal
\* clock value the update read, "-", the id; the clock value is not below the
\* previous one; the orderNo is strictly greater than the previous one when the
\* clock value is greater with the same number of digits, and it is the same
\* string when both mutations read the same millisecond.
C7_OrderNoAdvancesWithClock ==
    \A w \in Workers :
        Succeeded(w, "update", "OK")
            => LET id == req[w].id
                   old == loc[w].meta[1].OrderNo
                   new == store[id].OrderNo
                   o == OrderMs(old)
                   n == loc[w].now
               IN  /\ new = FormatInt(n) \o <<45>> \o id
                   /\ o <= n
                   /\ (o < n /\ Len(FormatInt(o)) = Len(FormatInt(n))) => StrLess(old, new)
                   /\ (o = n) => new = old

\* C7 witness: an Update read a later clock value than the previous mutation.
C7_Witness ==
    \E w \in Workers :
        /\ Succeeded(w, "update", "OK")
        /\ OrderMs(loc[w].meta[1].OrderNo) < loc[w].now
        /\ StrLess(loc[w].meta[1].OrderNo, store[req[w].id].OrderNo)

\* C8: when firestore.Get of an Update or a Delete finds no record for the id,
\* the handler ends at once with the not-found response, has made no bucket
\* call, and leaves the bucket and the metadata store as they were.
C8_NotFoundShortCircuits ==
    [][\A w \in Workers :
          (/\ pc[w] \in {"update_get", "delete_get"}
           /\ req[w].id \notin DOMAIN store
           /\ loc'[w].calls = Append(loc[w].calls, "firestore.Get")
           /\ loc'[w].err # "Unavailable")
              => /\ pc'[w] = "done"
                 /\ resp'[w].status = "NotFound"
                 /\ resp'[w].body = <<>>
                 /\ BucketCalls(loc'[w].calls) = {}
                 /\ bucket' = bucket
                 /\ store' = store]_vars

\* C8 witness: a Delete of an unknown id has ended while another record exists.
C8_Witness ==
    \E w \in Workers :
        /\ Succeeded(w, "delete", "NotFound")
        /\ store # EmptyMap

C10_StoreFailureIsInternal ==
    \A w \in Workers :
        (Done(w) /\ loc[w].err \in {"IOError", "Unavailable"})
            => resp[w].status = "Panic"

\* C11 (as claimed): when the thumbnail transcoder fails for an image of an
\* Upload, in its decode step or in its encode step, the handler ends with the
\* failure response and no metadata record exists for that file.
C11_TranscodeFailureAborts ==
    \A w \in Workers :
        (req[w].op = "upload" /\ loc[w].transcode \in {"DecodeError", "EncodeError"})
            => /\ pc[w] = "done"
               /\ resp[w].status = "BadRequest"
               /\ loc[w].id \notin DOMAIN store

\* The views a successful Upload or Update has sent
ViewsSent(w) ==
    IF Succeeded(w, "upload", "Created")
    THEN { resp[w].body[1][j] : j \in 1..Len(resp[w].body[1]) }
    ELSE IF Succeeded(w, "update", "OK") THEN { resp[w].body[1] } ELSE {}

\* C12: when no call fails and no request is in progress, every metadata record
\* has a thumbnail blob at path + "_small" exactly when the lower-cased
\* extension of its name is an image type, and a view sent for it has a
\* thumbUrl exactly in that case, which then names that thumbnail blob.
C12_ThumbnailIffImage ==
    (\A w \in Workers : pc[w] \in {"idle", "done"})
        => /\ \A id \in DOMAIN store :
                 (store[id].Path \o ThumbnailSuffix \in DOMAIN bucket)
                    <=> (ToLower(Ext(store[id].Name)) \in imageTypes)
           /\ \A w \in Workers : \A v \in ViewsSent(w) :
                 /\ v.ID \in DOMAIN store
                 /\ (v.ThumbURL # <<>>)
                       <=> (ToLower(Ext(store[v.ID].Name)) \in imageTypes)
                 /\ (v.ThumbURL # <<>>)
                       => /\ v.ThumbURL = ResourceBasePath \o store[v.ID].Path \o ThumbnailSuffix
                          /\ store[v.ID].Path \o ThumbnailSuffix \in DOMAIN bucket

\* C12 witness: an Upload of an image and of a file that is no image has
\* succeeded.
C12_Witness ==
    \E w \in Workers :
        /\ Succeeded(w, "upload", "Created")
        /\ \E v1, v2 \in ViewsSent(w) : v1.ThumbURL # <<>> /\ v2.ThumbURL = <<>>

\* The position of the view of document id in a sequence of views, 0 if none
PosOf(views, id) ==
    IF \E i \in 1..Len(views) : views[i].ID = id
    THEN CHOOSE i \in 1..Len(views) : views[i].ID = id
    ELSE 0

\* The lister has answered a listing request with a page
Listed == Succeeded(Lister, "list", "OK")

\* C13: a listing served after a successful Upload shows each uploaded file it
\* returns with the base name of the file, the normalized tag string of the
\* upload and the byte length of the primary blob, never the unknown-size
\* value -1; and it returns the file when the listing's tags are among the
\* file's tags, no cursor is given and the page is not cut.
C13_RoundTrip ==
    \A w \in Workers :
        (Succeeded(w, "upload", "Created") /\ Listed)
            => LET page == resp[Lister].body[1]
                   sent == resp[w].body[1]
               IN  \A j \in 1..Len(sent) :
                     LET file == req[w].files[j]
                         k == PosOf(page, sent[j].ID)
                     IN  /\ k # 0 =>
                               /\ page[k].Name = Base(file.Filename)
                               /\ page[k].Tags = parseTags(req[w].tags)
                               /\ req[w].tags = <<>> => page[k].Tags = <<>>
                               /\ page[k].FileSize = file.Size
                               /\ page[k].FileSize = bucket[store[sent[j].ID].Path].Size
                               /\ page[k].FileSize # -1
                         /\ (/\ Range(parseTags(req[Lister].tags))
                                    \subseteq Range(parseTags(req[w].tags))
                             /\ req[Lister].orderNo = <<>>
                             /\ Len(page) < loc[Lister].size) => k # 0

\* C13 witness: a listing by tags returned an uploaded image with its tags.
C13_Witness ==
    \E w \in Workers :
        /\ Succeeded(w, "upload", "Created")
        /\ Listed
        /\ req[Lister].tags # <<>>
        /\ IsImage(req[w].files[1].Filename)
        /\ PosOf(resp[Lister].body[1], resp[w].body[1][1].ID) # 0

\* The concatenation of the pages the caller holds
RECURSIVE Concat(_)
Concat(pages) == IF pages = <<>> THEN <<>> ELSE Head(pages) \o Concat(Tail(pages))

\* C14: when the caller has paged to the end of a listing, passing the last
\* orderNo of each page as the next cursor while the data was left alone, the
\* pages together hold exactly the documents that contain all the requested
\* tags, each once, by orderNo descending, each as the view of the document.
C14_PagesCoverMatches ==
    pager.complete
        => LET all == Concat(pager.pages)
               want == { id \in DOMAIN store :
                           \A i \in 1..Len(parseTags(pager.tags)) :
                              \E j \in 1..Len(store[id].Tags) :
                                 store[id].Tags[j] = parseTags(pager.tags)[i] }
           IN  /\ { all[i].ID : i \in 1..Len(all) } = want
               /\ Len(all) = Cardinality(want)
               /\ \A i, j \in 1..Len(all) :
                     i < j => StrLess(all[j].OrderNo, all[i].OrderNo)
               /\ \A i \in 1..Len(all) :
                     /\ all[i].OrderNo = store[all[i].ID].OrderNo
                     /\ all[i].Name = store[all[i].ID].Name

\* C14 witness: the caller asked for pages of one document, got two such pages
\* and then the empty page.
C14_Witness ==
    /\ pager.complete
    /\ Len(pager.pages) = 2
    /\ pager.size = <<49>>

\* The document worker w has just created or updated, the last one mutated:
\* the last file of a successful Upload, or the document of a successful Update
LastMutated(w) ==
    IF Succeeded(w, "upload", "Created") THEN {resp[w].body[1][Len(resp[w].body[1])].ID}
    ELSE IF Succeeded(w, "update", "OK") THEN {req[w].id}
    ELSE {}

\* C15 (as claimed): in a listing served after a document B was created or
\* updated, B, the document mutated last, has a greater orderNo than every
\* other document A of the page and comes before it, whatever the clock read.
C15_LastMutatedFirst ==
    \A w \in Workers : \A b \in LastMutated(w) :
        Listed =>
            LET page == resp[Lister].body[1]
            IN  PosOf(page, b) # 0
                   => \A i \in 1..Len(page) :
                         page[i].ID # b
                            => /\ StrLess(page[i].OrderNo, page[PosOf(page, b)].OrderNo)
                               /\ PosOf(page, b) < i

\* C15 (amended): a page is in descending orderNo; the document B mutated last
\* comes before a document A of the page when B's mutation read a later
\* millisecond than A's, or the same millisecond and B's id is the greater
\* string; when both read the same millisecond and A's id is the greater
\* string, A comes before B although B was mutated after A.
C15_OrderedByClockThenId ==
    Listed =>
        LET page == resp[Lister].body[1]
        IN  /\ \A i, j \in 1..Len(page) :
                  i < j => StrLess(page[j].OrderNo, page[i].OrderNo)
            /\ \A w \in Workers : \A b \in LastMutated(w) :
                  PosOf(page, b) # 0
                     => \A i \in 1..Len(page) :
                           LET a == page[i]
                               pb == PosOf(page, b)
                           IN  a.ID # b
                                 => /\ OrderMs(a.OrderNo) <= loc[w].now
                                    /\ OrderMs(page[pb].OrderNo) = loc[w].now
                                    /\ OrderMs(a.OrderNo) < loc[w].now => pb < i
                                    /\ (OrderMs(a.OrderNo) = loc[w].now /\ StrLess(a.ID, b))
                                          => pb < i
                                    /\ (OrderMs(a.OrderNo) = loc[w].now /\ StrLess(b, a.ID))
                                          => i < pb

\* C15 witness: a page holds the document updated last behind a document
\* created before that update in the same millisecond.
C15_Witness ==
    \E w \in Workers :
        /\ Succeeded(w, "update", "OK")
        /\ Listed
        /\ LET page == resp[Lister].body[1]
           IN  /\ Len(page) = 2
               /\ page[2].ID = req[w].id
               /\ OrderMs(page[1].OrderNo) = loc[w].now

\* C16: normalizing the space-joined tokens of a normalized tag string gives
\* the same tokens; every token is non-empty, has no upper-case letter and no
\* whitespace; the empty string normalizes to no token.
C16_NormalizeIdempotent ==
    /\ probe.fn \in {"parseTags", "parseTags again"}
          => /\ \A i \in 1..Len(probe.out) :
                   /\ probe.out[i] # <<>>
                   /\ \A k \in 1..Len(probe.out[i]) :
                         /\ probe.out[i][k] \notin 65..90
                         /\ probe.out[i][k] \notin {9, 10, 11, 12, 13, 32}
             /\ probe.in = <<>> => probe.out = <<>>
    /\ probe.fn = "parseTags again" => probe.again = probe.out

\* C16 witness: a string of the greatest length with an upper-case letter was
\* normalized twice into two tokens.
C16_Witness ==
    /\ probe.fn = "parseTags again"
    /\ Len(probe.again) = 2
    /\ Len(probe.in) = MaxTagLen
    /\ \E k \in 1..Len(probe.in) : probe.in[k] = 66

\* C17: the primary paths of two distinct identifiers differ, and the
\* thumbnail path of a primary path differs from that primary path.
C17_PathsInjective ==
    probe.fn = "paths"
        => /\ probe.ids[1] # probe.ids[2] => probe.paths[1] # probe.paths[2]
           /\ probe.paths[3] # probe.paths[1]
           /\ probe.paths[3] = probe.paths[1] \o <<95, 115, 109, 97, 108, 108>>

\* C17 witness: the paths of two distinct identifiers, one a prefix of the
\* other, were derived.
C17_Witness ==
    /\ probe.fn = "paths"
    /\ probe.ids[1] # probe.ids[2]
    /\ Len(probe.ids[1]) < Len(probe.ids[2])
    /\ SubSeq(probe.ids[2], 1, Len(probe.ids[1])) = probe.ids[1]

\* The primary blobs no metadata record names
Orphans == { p \in PrimaryPaths : \A id \in DOMAIN store : store[id].Path # p }

\* Workers w and v have handled requests for the same id that overlapped: each
\* read the record before the other changed it
Overlapped(w, v) ==
    /\ w # v
    /\ Done(w) /\ Done(v)
    /\ req[w].id = req[v].id
    /\ loc[w].meta # <<>>
    /\ loc[w].meta = loc[v].meta

\* C18: the final state of two overlapping operations on one id is a state no
\* serial run ends in (a serial run ends with the primary blobs being exactly
\* the paths of the records, C3). After two overlapping Updates with a
\* replacement file that both succeed, the blobs of both are present, the
\* record names one of them and the other is named by no record: an update is
\* lost. After an Update with a replacement file overlapping a Delete that
\* succeeds, the record is gone and the blob the Update wrote for the id is
\* still present.
C18_OverlapBreaksSerialOutcome ==
    \A w, v \in AllWorkers :
        /\ (/\ Overlapped(w, v)
            /\ Succeeded(w, "update", "OK") /\ req[w].files # <<>>
            /\ Succeeded(v, "update", "OK") /\ req[v].files # <<>>)
              => /\ {loc[w].path, loc[v].path} \subseteq PrimaryPaths
                 /\ loc[w].path # loc[v].path
                 /\ store[req[w].id].Path \in {loc[w].path, loc[v].path}
                 /\ ({loc[w].path, loc[v].path} \ {store[req[w].id].Path}) \subseteq Orphans
                 /\ PrimaryPaths # { store[id].Path : id \in DOMAIN store }
        /\ (/\ Overlapped(w, v)
            /\ req[w].op = "update" /\ req[w].files # <<>>
            /\ Succeeded(v, "delete", "NoContent"))
              => /\ req[w].id \notin DOMAIN store
                 /\ loc[w].path \in Orphans
                 /\ PrimaryPaths # { store[id].Path : id \in DOMAIN store }

\* C18 witness: two overlapping Updates with a replacement file have both
\* succeeded.
C18_Witness ==
    \E w, v \in AllWorkers :
        /\ Overlapped(w, v)
        /\ Succeeded(w, "update", "OK") /\ req[w].files # <<>>
        /\ Succeeded(v, "update", "OK") /\ req[v].files # <<>>

\* The blob paths that belong to a primary path
BlobsOf(path) == {path, path \o ThumbnailSuffix}

\* C19: a step a worker takes for one id leaves the metadata records of all
\* other ids as they are, and creates, changes or removes no blob other than
\* the blobs at the path it read from the record of its id and at the path of
\* the identifier it generated; none of these is a blob of the record of
\* another id or a blob another worker has written for another id.
C19_OtherIdsUntouched ==
    [][\A w \in AllWorkers :
          pc'[w] # pc[w] =>
             LET id == IF req'[w].op = "upload" THEN loc'[w].id ELSE req'[w].id
                 own == BlobsOf(loc'[w].path)
                           \cup (IF loc[w].meta = <<>> THEN {}
                                 ELSE BlobsOf(loc[w].meta[1].Path))
                 changed == { p \in DOMAIN bucket \cup DOMAIN bucket' :
                                \/ p \notin DOMAIN bucket
                                \/ p \notin DOMAIN bucket'
                                \/ bucket'[p] # bucket[p] }
             IN  /\ \A j \in (DOMAIN store \cup DOMAIN store') \ {id} :
                       /\ j \in DOMAIN store
                       /\ j \in DOMAIN store'
                       /\ store'[j] = store[j]
                 /\ changed \subseteq own
                 /\ \A j \in DOMAIN store \ {id} :
                       changed \cap BlobsOf(store[j].Path) = {}
                 /\ \A v \in AllWorkers \ {w} :
                       (req[v].op \in {"upload", "update"} /\ req[v].id # id
                        /\ loc[v].id # id /\ loc[v].path # <<>>)
                          => changed \cap BlobsOf(loc[v].path) = {}]_vars

\* C19 witness: while worker 1 is replacing the file of one record, worker 2
\* has removed the blobs of another record and is about to delete it.
C19_Witness ==
    /\ pc[1] = "update_merge"
    /\ req[1].files # <<>>
    /\ pc[2] = "delete_record"
    /\ req[1].id # req[2].id
    /\ {req[1].id, req[2].id} \subseteq DOMAIN store

\* C20: an Update without a replacement file makes no bucket call and leaves
\* the bucket as it is in each of its steps, and its merge changes, in the
\* record of its id only, the tags to the normalized tag string and the orderNo
\* to the fresh one: id, path, name and fileSize stay as they were read, and
\* no other record changes.
C20_MetadataOnlyUpdate ==
    [][\A w \in Workers :
          (/\ pc[w] \in {"update_get", "update_merge"}
           /\ pc'[w] \in {"update_merge", "done"}
           /\ req'[w].files = <<>>)
             => /\ bucket' = bucket
                /\ BucketCalls(loc'[w].calls) = {}
                /\ pc[w] = "update_get" => store' = store
                /\ (pc[w] = "update_merge" /\ resp'[w].status = "OK")
                      => LET id == req[w].id
                             old == loc[w].meta[1]
                         IN  /\ old = store[id]
                             /\ DOMAIN store' = DOMAIN store
                             /\ \A j \in DOMAIN store \ {id} : store'[j] = store[j]
                             /\ store'[id].ID = old.ID
                             /\ store'[id].Path = old.Path
                             /\ store'[id].Name = old.Name
                             /\ store'[id].FileSize = old.FileSize
                             /\ store'[id].Tags = parseTags(req[w].tags)
                             /\ store'[id].OrderNo
                                   = FormatInt(loc[w].now) \o <<45>> \o id
                /\ (pc[w] = "update_merge" /\ resp'[w].status # "OK")
                      => store' = store]_vars

\* C20 witness: an Update without a file has changed the tags of an image
\* record whose blobs are present.
C20_Witness ==
    \E w \in Workers :
        /\ Succeeded(w, "update", "OK")
        /\ req[w].files = <<>>
        /\ loc[w].meta[1].Tags # store[req[w].id].Tags
        /\ loc[w].meta[1].OrderNo # store[req[w].id].OrderNo
        /\ BlobsOf(store[req[w].id].Path) \subseteq DOMAIN bucket

\* The adapter calls of an Update with the replacement file `file`, in order
UpdateCalls(file) ==
    <<"firestore.Get", "bucket.Delete", "bucket.Write">>
        \o (IF ToLower(Ext(file.Filename)) \in imageTypes
            THEN <<"bucket.TransWrite">> ELSE <<>>)
        \o <<"firestore.Merge">>

\* C21 (as claimed): the adapter calls of an Update with a replacement file are
\* made in the order get, delete of the old blobs, write of the new primary
\* blob, write of its thumbnail for an image, merge; once a call has failed,
\* or the thumbnail transcoder has failed in its decode or encode step, the
\* handler has ended without a further call and without the merge, and the
\* record is as the Update read it.
C21_UpdateStepsInOrder ==
    \A w \in Workers :
        (req[w].op = "update" /\ req[w].files # <<>>)
            => LET calls == loc[w].calls
                   failed == \/ loc[w].err # "nil"
                             \/ loc[w].transcode \in {"DecodeError", "EncodeError"}
               IN  /\ Len(calls) <= Len(UpdateCalls(req[w].files[1]))
                   /\ calls = SubSeq(UpdateCalls(req[w].files[1]), 1, Len(calls))
                   /\ failed
                         => /\ pc[w] = "done"
                            /\ resp[w].status = "Panic"
                            /\ loc[w].err # "nil"
                            /\ \A i \in 1..Len(calls) :
                                  calls[i] = "firestore.Merge" => i = Len(calls)
                            /\ req[w].id \in DOMAIN store
                            /\ store[req[w].id] = loc[w].meta[1]

====
